---- MODULE Spec2Model ----
(***************************************************************************)
(* File upload and metadata extraction service.                            *)
(*                                                                         *)
(* The model follows the request handlers of the Express controller        *)
(* (uploadFile, getMetadata, deleteFile, getDownloadUrl), the multer       *)
(* middleware in front of uploadFile, the S3 and DynamoDB service wrappers *)
(* and the Lambda handler that extracts metadata after an S3 notification. *)
(* Every await on a store call is one step, so the handlers interleave     *)
(* exactly at their store calls.                                           *)
(***************************************************************************)
EXTENDS Integers, Sequences, FiniteSets, TLC

(***************************************************************************)
(* Bounds of the model.                                                    *)
(***************************************************************************)
MaxDeliveries == 2
MaxDeletes == 1
MaxFaults == 1
MaxText == 2

(***************************************************************************)
(* Program constants.                                                      *)
(***************************************************************************)
maxFileSize == 50 * 1024 * 1024
DownloadTtl == 3600
TextLimit == 5000
AuthorMax == 255
DescriptionMax == 1000
TagsMax == 10
TagMax == 50

(***************************************************************************)
(* Values.                                                                 *)
(***************************************************************************)
Undefined == [undefined |-> TRUE]
Null == [null |-> TRUE]
Bucket == "upload-test-bucket"
Today == "2024-01-01"
Now == "2024-01-01T00:00:00.000Z"

Rep(c, n) == [i \in 1..n |-> c]

Min(a, b) == IF a < b THEN a ELSE b

(* MIME types are (type, subtype) pairs, so that startsWith('image/') is    *)
(* a test of the first component.                                          *)
Pdf == <<"application", "pdf">>
Jpeg == <<"image", "jpeg">>
Png == <<"image", "png">>
Gif == <<"image", "gif">>
Webp == <<"image", "webp">>
Plain == <<"text", "plain">>
Doc == <<"application", "msword">>
Docx == <<"application", "vnd.openxmlformats-officedocument.wordprocessingml.document">>
Exe == <<"application", "x-msdownload">>
Bmp == <<"image", "bmp">>

allowedTypes == {Pdf, Jpeg, Png, Gif, Webp, Plain, Doc, Docx}

allowedMimeTypes == {Pdf, Jpeg, Png, Gif, Webp, Plain, Doc, Docx}

validateFileType(mimeType) == mimeType \in allowedTypes

validateFileSizeStrict(size) == size < maxFileSize

validateFileSize(size) == size <= maxFileSize

fileFilter(mimetype) == mimetype \in allowedMimeTypes

(* busboy stops a file part once more than limits.fileSize bytes arrived.   *)
limitFileSize(size) == size > maxFileSize

(***************************************************************************)
(* File identifiers.  An identifier is known in the stores by a name; its  *)
(* text is the character sequence the format test of getMetadata reads.    *)
(***************************************************************************)
HexDigits == {"0", "1", "2", "3", "4", "5", "6", "7", "8", "9",
              "a", "b", "c", "d", "e", "f", "A", "B", "C", "D", "E", "F"}

uuidv4(n) == "id" \o ToString(n)

UuidText(v, r, last) ==
    Rep("0", 8) \o <<"-">> \o Rep("0", 4) \o <<"-", v>> \o Rep("0", 3)
        \o <<"-", r>> \o Rep("0", 3) \o <<"-">> \o Rep("0", 11) \o <<last>>

IdText(id) ==
    CASE id = "id1" -> UuidText("4", "8", "1")
      [] id = "id2" -> UuidText("4", "9", "2")
      [] id = "id3" -> UuidText("4", "a", "3")
      [] id = "unissued" -> UuidText("4", "B", "F")
      [] id = "nil" -> UuidText("0", "0", "0")
      [] id = "v7" -> UuidText("7", "8", "1")
      [] OTHER -> <<"i", "n", "v", "a", "l", "i", "d", "-", "i", "d">>

fileIdFormatLoose(s) == Len(s) > 0

(* /^[0-9a-f]{8}-[0-9a-f]{4}-[1-5][0-9a-f]{3}-[89ab][0-9a-f]{3}-[0-9a-f]{12}$/i *)
fileIdFormat(s) ==
    /\ Len(s) = 36
    /\ \A i \in 1..36 :
          IF i \in {9, 14, 19, 24} THEN s[i] = "-"
          ELSE IF i = 15 THEN s[i] \in {"1", "2", "3", "4", "5"}
          ELSE IF i = 20 THEN s[i] \in {"8", "9", "a", "b", "A", "B"}
          ELSE s[i] \in HexDigits

(***************************************************************************)
(* Storage keys are sequences of characters and path tokens.               *)
(***************************************************************************)
generateS3Key(filename, fileId) ==
    <<"uploads", "/", Today, "/", fileId, "/">> \o filename

(* sanitizeFilename: every character outside [a-zA-Z0-9.-] becomes '_',     *)
(* runs of '_' collapse to one, and a leading and a trailing '_' are cut.    *)
SafeChars ==
    {"a", "b", "c", "d", "e", "f", "g", "h", "i", "j", "k", "l", "m", "n", "o", "p", "q",
     "r", "s", "t", "u", "v", "w", "x", "y", "z",
     "A", "B", "C", "D", "E", "F", "G", "H", "I", "J", "K", "L", "M", "N", "O", "P", "Q",
     "R", "S", "T", "U", "V", "W", "X", "Y", "Z",
     "0", "1", "2", "3", "4", "5", "6", "7", "8", "9", ".", "-"}

replaceUnsafe(filename) ==
    [i \in 1..Len(filename) |-> IF filename[i] \in SafeChars THEN filename[i] ELSE "_"]

RECURSIVE collapseUnderscores(_)
collapseUnderscores(s) ==
    IF Len(s) < 2 THEN s
    ELSE IF s[1] = "_" /\ s[2] = "_" THEN collapseUnderscores(Tail(s))
    ELSE <<s[1]>> \o collapseUnderscores(Tail(s))

trimUnderscores(s) ==
    LET from == IF s # <<>> /\ s[1] = "_" THEN 2 ELSE 1
        to == IF s # <<>> /\ s[Len(s)] = "_" THEN Len(s) - 1 ELSE Len(s)
    IN SubSeq(s, from, to)

sanitizeFilename(filename) == trimUnderscores(collapseUnderscores(replaceUnsafe(filename)))

(* multer hands uploadFile the base name of the filename the client sent    *)
(* (preservePath is not set): what follows the last '/' or '\'.              *)
basename(filename) ==
    LET seps == {i \in 1..Len(filename) : filename[i] \in {"/", "\\"}}
    IN IF seps = {} THEN filename
       ELSE SubSeq(filename, (CHOOSE i \in seps : \A j \in seps : j <= i) + 1, Len(filename))

RECURSIVE split(_)
split(s) ==
    IF \A i \in 1..Len(s) : s[i] # "/" THEN <<s>>
    ELSE LET i == CHOOSE j \in 1..Len(s) :
                      s[j] = "/" /\ \A k \in 1..(j - 1) : s[k] # "/"
         IN <<SubSeq(s, 1, i - 1)>> \o split(SubSeq(s, i + 1, Len(s)))

RECURSIVE join(_)
join(chars) == IF chars = <<>> THEN "" ELSE Head(chars) \o join(Tail(chars))

(* pathParts[2] of the source (zero-based): the third segment of the key.   *)
(* A missing segment (undefined) and an empty one are both falsy; they are  *)
(* the empty string here.                                                   *)
fileIdOfKey(objectKey) ==
    LET pathParts == split(objectKey)
    IN IF Len(pathParts) < 3 THEN "" ELSE join(pathParts[3])

(* S3 puts the URL-encoded key into the notification: a space becomes '+',  *)
(* reserved characters become percent escapes, '/' is kept.                 *)
s3EventKey(key) ==
    [i \in 1..Len(key) |->
        CASE key[i] = " " -> "+"
          [] key[i] = "+" -> "%2B"
          [] key[i] = "%" -> "%25"
          [] OTHER -> key[i]]

(* decodeURIComponent(key.replace(/\+/g, ' ')) *)
decodeKey(eventKey) ==
    [i \in 1..Len(eventKey) |->
        CASE eventKey[i] = "+" -> " "
          [] eventKey[i] = "%2B" -> "+"
          [] eventKey[i] = "%25" -> "%"
          [] OTHER -> eventKey[i]]

(***************************************************************************)
(* File contents.  A buffer is a sequence of characters (data) followed by *)
(* pad further bytes that are neither whitespace nor line breaks; fmt is   *)
(* the format the bytes really have, whatever MIME type the client         *)
(* declares.                                                               *)
(***************************************************************************)
TextBody == [fmt |-> "text", data |-> <<"a", " ", "b", "\n", "c", "\n">>, pad |-> 0,
             pages |-> 0, dates |-> FALSE, width |-> 0, height |-> 0, exif |-> FALSE]
PdfBody == [fmt |-> "pdf", data |-> <<"p", " ", "q">>, pad |-> 10,
            pages |-> 3, dates |-> TRUE, width |-> 0, height |-> 0, exif |-> FALSE]
PdfNoDates == [fmt |-> "pdf", data |-> <<"p">>, pad |-> 20,
               pages |-> 1, dates |-> FALSE, width |-> 0, height |-> 0, exif |-> FALSE]
PngBody == [fmt |-> "png", data |-> <<>>, pad |-> 30,
            pages |-> 0, dates |-> FALSE, width |-> 800, height |-> 600, exif |-> FALSE]
DocBody == [fmt |-> "doc", data |-> <<"w">>, pad |-> 40,
            pages |-> 0, dates |-> FALSE, width |-> 0, height |-> 0, exif |-> FALSE]
CeilingBody == [fmt |-> "text", data |-> <<"x", "\n">>, pad |-> maxFileSize - 2,
                pages |-> 0, dates |-> FALSE, width |-> 0, height |-> 0, exif |-> FALSE]
OversizeBody == [fmt |-> "text", data |-> <<"x", "\n">>, pad |-> maxFileSize - 1,
                 pages |-> 0, dates |-> FALSE, width |-> 0, height |-> 0, exif |-> FALSE]

length(fileBuffer) == Len(fileBuffer.data) + fileBuffer.pad

(* s.substring(0, n) of a text given as data plus pad. *)
substring(text, n) ==
    IF Len(text.data) >= n THEN [data |-> SubSeq(text.data, 1, n), pad |-> 0]
    ELSE [data |-> text.data, pad |-> Min(text.pad, n - Len(text.data))]

(* fileBuffer.toString('utf8'): never fails. *)
toStringUtf8(fileBuffer) == [data |-> fileBuffer.data, pad |-> fileBuffer.pad]

isSpace(c) == c \in {" ", "\n", "\t"}

(* text.split('\n').length *)
splitNewlineLength(text) ==
    Cardinality({i \in 1..Len(text.data) : text.data[i] = "\n"}) + 1

(* text.split(/\s+/).length: one more than the number of whitespace runs.   *)
splitSpaceLength(text) ==
    Cardinality({i \in 1..Len(text.data) :
                    /\ isSpace(text.data[i])
                    /\ (i = 1 \/ ~isSpace(text.data[i - 1]))}) + 1

(* pdf-parse: throws on bytes that are not a PDF document. *)
pdfParse(fileBuffer) ==
    IF fileBuffer.fmt = "pdf"
    THEN [ok |-> TRUE, numpages |-> fileBuffer.pages,
          text |-> [data |-> fileBuffer.data, pad |-> 0],
          CreationDate |-> IF fileBuffer.dates THEN [date |-> "D:2023"] ELSE Undefined,
          ModDate |-> IF fileBuffer.dates THEN [date |-> "D:2024"] ELSE Undefined]
    ELSE [ok |-> FALSE, message |-> "Invalid PDF structure"]

(* sharp(buffer).metadata(): throws on bytes that are not an image. *)
sharpMetadata(fileBuffer) ==
    IF fileBuffer.fmt \in {"png", "jpeg", "gif", "webp"}
    THEN [ok |-> TRUE, width |-> fileBuffer.width, height |-> fileBuffer.height,
          format |-> fileBuffer.fmt, exif |-> fileBuffer.exif]
    ELSE [ok |-> FALSE, message |-> "Input buffer contains unsupported image format"]

degradedSilent(fileBuffer, mimeType, message) ==
    [fileType |-> mimeType, fileSize |-> length(fileBuffer)]

(* The catch block of extractFileMetadata. *)
degraded(fileBuffer, mimeType, message) ==
    [fileType |-> mimeType, fileSize |-> length(fileBuffer), extractionError |-> message]

extractFileMetadata(fileBuffer, mimeType) ==
    LET metadata == [fileType |-> mimeType, fileSize |-> length(fileBuffer)]
    IN IF mimeType = Undefined
       THEN degraded(fileBuffer, mimeType, "Cannot read properties of undefined")
       ELSE IF mimeType = Pdf
       THEN LET pdfData == pdfParse(fileBuffer)
            IN IF ~pdfData.ok THEN degraded(fileBuffer, mimeType, pdfData.message)
               ELSE metadata @@ [pages |-> pdfData.numpages,
                                 textContent |-> substring(pdfData.text, TextLimit),
                                 createdDate |-> pdfData.CreationDate,
                                 modifiedDate |-> pdfData.ModDate]
       ELSE IF mimeType[1] = "image"
       THEN LET imageData == sharpMetadata(fileBuffer)
            IN IF ~imageData.ok THEN degraded(fileBuffer, mimeType, imageData.message)
               ELSE metadata @@ [dimensions |-> [width |-> imageData.width,
                                                 height |-> imageData.height],
                                 encoding |-> imageData.format]
                             @@ (IF imageData.exif
                                 THEN [exifData |-> [density |-> 72, hasProfile |-> FALSE,
                                                     hasAlpha |-> FALSE]]
                                 ELSE <<>>)
       ELSE IF mimeType = Plain
       THEN LET textContent == toStringUtf8(fileBuffer)
            IN metadata @@ [textContent |-> substring(textContent, TextLimit),
                            encoding |-> "utf8",
                            textAnalysis |-> [lines |-> splitNewlineLength(textContent),
                                              words |-> splitSpaceLength(textContent),
                                              characters |-> length(textContent)]]
       ELSE metadata

(***************************************************************************)
(* The userMetadata form field.  The text of the field is described by     *)
(* whether it is there, whether it is well-formed JSON and the value it    *)
(* denotes; strings are kept by their length.                              *)
(***************************************************************************)
Obj(author, description, tags, expirationDate) ==
    [kind |-> "object", author |-> author, description |-> description,
     tags |-> tags, expirationDate |-> expirationDate]

EmptyObj == Obj(-1, -1, <<>>, "none")

Field(value) == [present |-> TRUE, wellFormed |-> TRUE, value |-> value]

NoField == [present |-> FALSE, wellFormed |-> TRUE, value |-> EmptyObj]
GoodField == Field(Obj(4, 11, <<4, 9>>, "future"))
BrokenField == [present |-> TRUE, wellFormed |-> FALSE, value |-> EmptyObj]
NullField == Field([kind |-> "null"])
LongAuthorField == Field(Obj(AuthorMax + 1, -1, <<>>, "none"))
MaxAuthorField == Field(Obj(AuthorMax, DescriptionMax, <<TagMax>>, "none"))
LongDescriptionField == Field(Obj(-1, DescriptionMax + 1, <<>>, "none"))
ManyTagsField == Field(Obj(-1, -1, Rep(1, TagsMax + 1), "none"))
LongTagField == Field(Obj(-1, -1, <<TagMax + 1>>, "none"))
PastField == Field(Obj(4, -1, <<>>, "past"))

(* uploadSchema of the validation utilities: the Joi schema of the field.   *)
uploadSchema(userMetadata) ==
    /\ userMetadata.kind = "object"
    /\ userMetadata.author = -1
          \/ (userMetadata.author >= 1 /\ userMetadata.author <= AuthorMax)
    /\ userMetadata.expirationDate \in {"none", "future"}
    /\ userMetadata.description <= DescriptionMax
    /\ Len(userMetadata.tags) <= TagsMax
    /\ \A i \in 1..Len(userMetadata.tags) : userMetadata.tags[i] <= TagMax

(* req.body.userMetadata ? JSON.parse(req.body.userMetadata) : {} *)
parseUserMetadata(field) ==
    IF ~field.present THEN [ok |-> TRUE, value |-> EmptyObj]
    ELSE IF ~field.wellFormed THEN [ok |-> FALSE, value |-> EmptyObj]
    ELSE [ok |-> TRUE, value |-> field.value]

(* userMetadata.author || 'anonymous' *)
uploadedBy(userMetadata) ==
    IF userMetadata.kind = "object" /\ userMetadata.author > 0 THEN "author" ELSE "anonymous"

(***************************************************************************)
(* Requests to POST /upload.                                               *)
(***************************************************************************)
Request(hasFile, mimetype, body, originalname, field) ==
    [hasFile |-> hasFile, mimetype |-> mimetype, body |-> body,
     originalname |-> originalname, userMetadata |-> field]

PlainName == <<"a", ".", "t">>

(* Filenames as clients send them. *)
Names == {PlainName, <<"d", "/", "a">>, <<"a", " ", "b">>, <<"a", "+", "b">>,
          <<"_", "a", "!", "!", "b", "_">>}

MimeTypes == allowedTypes \cup {Exe, Bmp}

Bodies == {TextBody, PdfBody, PdfNoDates, PngBody, DocBody, CeilingBody, OversizeBody}

Fields == {NoField, GoodField, BrokenField, NullField, LongAuthorField, MaxAuthorField,
           LongDescriptionField, ManyTagsField, LongTagField, PastField}

(* Every combination of declared type, content and userMetadata field.      *)
AllRequests ==
    {Request(FALSE, Plain, TextBody, PlainName, f) : f \in {NoField, BrokenField}}
    \cup {Request(TRUE, m, b, PlainName, f) : m \in MimeTypes, b \in Bodies, f \in Fields}
    \cup {Request(TRUE, Plain, TextBody, n, GoodField) : n \in Names}

(* The requests of the concurrent system: one whose extraction succeeds,   *)
(* one whose extractor fails on the content, one with a pass-through type,  *)
(* and two that are refused.                                                *)
PipelineRequests ==
    {Request(TRUE, Plain, TextBody, PlainName, GoodField),
     Request(TRUE, Pdf, PngBody, PlainName, GoodField),
     Request(TRUE, Doc, DocBody, PlainName, NoField),
     Request(TRUE, Exe, DocBody, PlainName, GoodField),
     Request(TRUE, Plain, TextBody, PlainName, BrokenField)}

(***************************************************************************)
(* Responses.                                                              *)
(***************************************************************************)
NoResponse == [status |-> 0, error |-> "", fileId |-> ""]

Response(status, error) == [status |-> status, error |-> error, fileId |-> ""]

NoError == [name |-> "", code |-> "", isAppError |-> FALSE, statusCode |-> 0, message |-> ""]

AppError(message, statusCode) ==
    [name |-> "Error", code |-> "", isAppError |-> TRUE, statusCode |-> statusCode,
     message |-> message]

MulterError(code) ==
    [name |-> "MulterError", code |-> code, isAppError |-> FALSE, statusCode |-> 0,
     message |-> "File too large"]

(* The multer middleware: the file filter runs when the file part starts,   *)
(* the size limit while its bytes arrive.  The result is the error passed   *)
(* to next, NoError when the request goes on to the controller.             *)
uploadSingle(req) ==
    IF ~req.hasFile THEN NoError
    ELSE IF ~fileFilter(req.mimetype) THEN AppError("Invalid file type", 400)
    ELSE IF limitFileSize(length(req.body)) THEN MulterError("LIMIT_FILE_SIZE")
    ELSE NoError

errorHandlerGeneric(error) == Response(500, "Internal Server Error")

(* The global error handler. *)
errorHandler(error) ==
    LET statusCode == IF error.name \in {"ValidationError", "MulterError"} THEN 400
                      ELSE IF error.isAppError THEN error.statusCode
                      ELSE 500
        message == IF error.name = "MulterError" THEN "File upload error"
                   ELSE IF error.name = "ValidationError" THEN "Validation Error"
                   ELSE IF error.isAppError THEN error.message
                   ELSE "Internal Server Error"
    IN Response(statusCode, message)

(* handleMulterError answers the multer errors it knows and passes every    *)
(* other error on to the global error handler.                              *)
handleMulterError(error) ==
    IF error.name = "MulterError" /\ error.code = "LIMIT_FILE_SIZE"
    THEN Response(400, "File too large")
    ELSE IF error.name = "MulterError" /\ error.code = "LIMIT_FILE_COUNT"
    THEN Response(400, "Too many files")
    ELSE IF error.name = "MulterError" /\ error.code = "LIMIT_UNEXPECTED_FILE"
    THEN Response(400, "Unexpected field name")
    ELSE errorHandler(error)

(* The part of uploadFile before its first store call. *)
uploadFileChecks(req) ==
    IF ~req.hasFile THEN Response(400, "No file uploaded")
    ELSE IF ~parseUserMetadata(req.userMetadata).ok
    THEN Response(500, "Internal server error during upload")
    ELSE IF ~validateFileType(req.mimetype) THEN Response(400, "Invalid file type")
    ELSE IF ~validateFileSize(length(req.body)) THEN Response(400, "File too large")
    ELSE IF parseUserMetadata(req.userMetadata).value.kind = "null"
    THEN Response(500, "Internal server error during upload")
    ELSE NoResponse

(* The route POST /upload up to the first store call of uploadFile: the     *)
(* response that ends the request there, NoResponse when uploadFile goes on *)
(* to the blob write.                                                       *)
uploadRoute(req) ==
    IF uploadSingle(req) # NoError THEN handleMulterError(uploadSingle(req))
    ELSE uploadFileChecks(req)

(***************************************************************************)
(* The stores.                                                             *)
(***************************************************************************)
Put(store, key, value) ==
    [k \in DOMAIN store \cup {key} |-> IF k = key THEN value ELSE store[k]]

Remove(store, key) == [k \in DOMAIN store \ {key} |-> store[k]]

Get(store, key) == IF key \in DOMAIN store THEN store[key] ELSE Null

(* The document client refuses to marshall a value holding undefined.  The  *)
(* attributes that can be undefined in an update are those the extraction   *)
(* copies from its inputs.                                                  *)
hasUndefined(updates) ==
    /\ "extractedMetadata" \in DOMAIN updates
    /\ \E g \in DOMAIN updates.extractedMetadata \cap {"fileType", "createdDate", "modifiedDate"} :
          updates.extractedMetadata[g] = Undefined

getMetadataEmpty(table, fileId) ==
    IF fileId \in DOMAIN table THEN table[fileId] ELSE [id |-> fileId]

(* GetItem: the item, null when the table has none. *)
getMetadata(table, fileId) == Get(table, fileId)

deleteMetadataKeep(table, fileId) == table

(* DeleteItem *)
deleteMetadata(table, fileId) == Remove(table, fileId)

s3DeleteFileKeep(bucket, key) == bucket

(* DeleteObject: succeeds whether or not the object is there. *)
s3DeleteFile(bucket, key) == Remove(bucket, key)

(* UpdateItem with a SET expression and no condition: the named attributes  *)
(* are set on the item with that key, and the item is created when the      *)
(* table has none.                                                          *)
updateMetadata(table, fileId, updates) ==
    IF fileId \in DOMAIN table THEN Put(table, fileId, updates @@ table[fileId])
    ELSE Put(table, fileId, updates @@ [id |-> fileId])

updateFileStatus(table, fileId, status) == updateMetadata(table, fileId, [status |-> status])

addExtractedMetadataKeepStatus(table, fileId, extractedMetadata) ==
    updateMetadata(table, fileId, [extractedMetadata |-> extractedMetadata])

addExtractedMetadata(table, fileId, extractedMetadata) ==
    updateMetadata(table, fileId,
                   [extractedMetadata |-> extractedMetadata, status |-> "processed"])

(* A record's field, undefined when the item has no such attribute.         *)
Attr(item, f) == IF f \in DOMAIN item THEN item[f] ELSE Undefined

(* getSignedUrl: computed locally from the key, no request to the store.    *)
getPresignedUrl(key, expiresIn) == [bucket |-> Bucket, key |-> key, expiresIn |-> expiresIn]

(***************************************************************************)
(* State.                                                                  *)
(***************************************************************************)
VARIABLES
    s3,        \* ObjectStore: storage key -> object
    db,        \* RecordStore: file id -> item
    events,    \* notifications S3 has emitted (URL-encoded keys)
    upload,    \* the POST /upload request under study
    lambda,    \* the invocations of the Lambda handler
    deletes,   \* the DELETE /files/:fileId requests
    query,     \* the answer to the GET request just served
    faults     \* store calls that failed so far

vars == <<s3, db, events, upload, lambda, deletes, query, faults>>

Invocations == 1..MaxDeliveries
Deletes == 1..MaxDeletes

NoRequest == Request(FALSE, Plain, TextBody, PlainName, NoField)

NewUpload == [pc |-> "new", req |-> NoRequest, fileId |-> "", s3Key |-> <<>>,
              calls |-> <<>>, res |-> NoResponse]

IdleInvocation == [pc |-> "idle", Records |-> <<>>, idx |-> 0, fileBuffer |-> Null,
                   fileId |-> "", mimeType |-> Null, extractedMetadata |-> Null,
                   outcomes |-> <<>>]

NewDelete == [pc |-> "new", fileId |-> "", metadata |-> Null, calls |-> <<>>,
              quiet |-> FALSE, res |-> NoResponse]

NoQuery == [op |-> "", fileId |-> "", calls |-> <<>>, status |-> 0, data |-> Null]

Init ==
    /\ s3 = <<>>
    /\ db = <<>>
    /\ events = {}
    /\ upload = NewUpload
    /\ lambda = [i \in Invocations |-> IdleInvocation]
    /\ deletes = [d \in Deletes |-> NewDelete]
    /\ query = NoQuery
    /\ faults = 0

(* A store call may fail (UpstreamFailure); a failed call changes nothing.  *)
MayFail == faults < MaxFaults

(* The identifiers clients can name: those an upload answered with, one     *)
(* well-formed identifier never issued, and malformed ones.                 *)
IssuedIds == IF upload.res.status = 201 THEN {upload.res.fileId} ELSE {}

OtherIds == {"unissued", "invalid-id", "nil"}

(***************************************************************************)
(* POST /upload                                                            *)
(***************************************************************************)
(* The request arrives: multer, then uploadFile up to the blob write.       *)
UploadReceive(reqs) ==
    /\ upload.pc = "new"
    /\ \E req \in reqs :
          LET res == uploadRoute(req)
              fileId == uuidv4(1)
              file == [req EXCEPT !.originalname = basename(@)]
          IN upload' = IF res # NoResponse
                       THEN [upload EXCEPT !.pc = "done", !.req = file, !.res = res]
                       ELSE [upload EXCEPT !.pc = "put", !.req = file, !.fileId = fileId,
                                           !.s3Key = generateS3Key(file.originalname, fileId)]
    /\ query' = NoQuery
    /\ UNCHANGED <<s3, db, events, lambda, deletes, faults>>

(* s3Service.uploadFile: PutObject; S3 emits the notification.              *)
UploadPutObject ==
    /\ upload.pc = "put"
    /\ s3' = Put(s3, upload.s3Key,
                 [Body |-> upload.req.body, ContentType |-> upload.req.mimetype,
                  Metadata |-> [fileId |-> upload.fileId,
                                originalName |-> upload.req.originalname,
                                uploadedBy |-> uploadedBy(parseUserMetadata(upload.req.userMetadata).value)]])
    /\ events' = events \cup {s3EventKey(upload.s3Key)}
    /\ upload' = [upload EXCEPT !.pc = "save", !.calls = Append(@, "s3.put")]
    /\ query' = NoQuery
    /\ UNCHANGED <<db, lambda, deletes, faults>>

saveMetadataLater(table, metadata) == table

(* dynamoService.saveMetadata: PutItem of the whole record.                 *)
saveMetadata(table, metadata) == Put(table, metadata.id, metadata)

newMetadataExtracted(up) ==
    [id |-> up.fileId, originalName |-> up.req.originalname,
     fileName |-> up.req.originalname, mimeType |-> up.req.mimetype,
     size |-> length(up.req.body), s3Key |-> up.s3Key, s3Bucket |-> Bucket,
     uploadedAt |-> Now,
     userMetadata |-> parseUserMetadata(up.req.userMetadata).value,
     status |-> "uploaded",
     extractedMetadata |-> [fileType |-> up.req.mimetype, fileSize |-> length(up.req.body)]]

(* The record uploadFile builds after the blob write.                       *)
newMetadata(up) ==
    [id |-> up.fileId, originalName |-> up.req.originalname,
     fileName |-> up.req.originalname, mimeType |-> up.req.mimetype,
     size |-> length(up.req.body), s3Key |-> up.s3Key, s3Bucket |-> Bucket,
     uploadedAt |-> Now,
     userMetadata |-> parseUserMetadata(up.req.userMetadata).value,
     status |-> "uploaded"]

UploadSaveMetadata ==
    /\ upload.pc = "save"
    /\ db' = saveMetadata(db, newMetadata(upload))
    /\ upload' = [upload EXCEPT !.pc = "status", !.calls = Append(@, "db.put")]
    /\ query' = NoQuery
    /\ UNCHANGED <<s3, events, lambda, deletes, faults>>

(* dynamoService.updateFileStatus(fileId, PROCESSING), then 201.            *)
UploadUpdateStatus ==
    /\ upload.pc = "status"
    /\ db' = updateFileStatus(db, upload.fileId, "processing")
    /\ upload' = [upload EXCEPT !.pc = "done", !.calls = Append(@, "db.update"),
                                !.res = [status |-> 201, error |-> "",
                                         fileId |-> upload.fileId]]
    /\ query' = NoQuery
    /\ UNCHANGED <<s3, events, lambda, deletes, faults>>

UploadStoreFailureSwallowed ==
    /\ upload.pc \in {"put", "save", "status"}
    /\ MayFail
    /\ faults' = faults + 1
    /\ upload' = [upload EXCEPT
                     !.pc = CASE upload.pc = "put" -> "save"
                              [] upload.pc = "save" -> "status"
                              [] OTHER -> "done",
                     !.calls = Append(@, CASE upload.pc = "put" -> "s3.put failed"
                                           [] upload.pc = "save" -> "db.put failed"
                                           [] OTHER -> "db.update failed"),
                     !.res = IF upload.pc = "status"
                             THEN [status |-> 201, error |-> "", fileId |-> upload.fileId]
                             ELSE @]
    /\ query' = NoQuery
    /\ UNCHANGED <<s3, db, events, lambda, deletes>>

(* A store call of uploadFile throws: the catch block answers 500.          *)
UploadStoreFailure ==
    /\ upload.pc \in {"put", "save", "status"}
    /\ MayFail
    /\ faults' = faults + 1
    /\ upload' = [upload EXCEPT
                     !.pc = "done",
                     !.calls = Append(@, CASE upload.pc = "put" -> "s3.put failed"
                                           [] upload.pc = "save" -> "db.put failed"
                                           [] OTHER -> "db.update failed"),
                     !.res = Response(500, "Internal server error during upload")]
    /\ query' = NoQuery
    /\ UNCHANGED <<s3, db, events, lambda, deletes>>

(***************************************************************************)
(* The Lambda handler.  An invocation carries a batch of notification       *)
(* records; S3 delivers a notification at least once, so a key may be in    *)
(* several batches and several times in one batch.                          *)
(***************************************************************************)
(* Notification records delivered so far, over the invocations in S.        *)
RECURSIVE DeliveredIn(_)
DeliveredIn(S) ==
    IF S = {} THEN 0
    ELSE LET i == CHOOSE j \in S : TRUE
         IN Len(lambda[i].Records) + DeliveredIn(S \ {i})

Delivered == DeliveredIn(Invocations)

(* The event of an invocation: a batch of records of objects that were put. *)
Batches == UNION {[1..n -> events] : n \in 1..(MaxDeliveries - Delivered)}

NextRecordAbort(inv, outcome) ==
    [inv EXCEPT !.pc = IF inv.idx = Len(inv.Records) \/ outcome \in {"error: get object", "error: get item", "error: update"}
                       THEN "done" ELSE "getFile",
                !.idx = IF inv.idx = Len(inv.Records) THEN inv.idx ELSE inv.idx + 1,
                !.fileBuffer = Null, !.fileId = "", !.mimeType = Null,
                !.extractedMetadata = Null,
                !.outcomes = Append(@, outcome)]

(* The loop of handler: on to the next record, or the end of the batch.     *)
NextRecord(inv, outcome) ==
    [inv EXCEPT !.pc = IF inv.idx = Len(inv.Records) THEN "done" ELSE "getFile",
                !.idx = IF inv.idx = Len(inv.Records) THEN inv.idx ELSE inv.idx + 1,
                !.fileBuffer = Null, !.fileId = "", !.mimeType = Null,
                !.extractedMetadata = Null,
                !.outcomes = Append(@, outcome)]

objectKey(inv) == decodeKey(inv.Records[inv.idx])

LambdaInvoke(i) ==
    /\ lambda[i].pc = "idle"
    /\ \A j \in Invocations : j < i => lambda[j].pc # "idle"
    /\ \E batch \in Batches :
          lambda' = [lambda EXCEPT ![i].pc = "getFile", ![i].Records = batch, ![i].idx = 1]
    /\ query' = NoQuery
    /\ UNCHANGED <<s3, db, events, upload, deletes, faults>>

LambdaGetFileEmpty(i) ==
    /\ lambda[i].pc = "getFile"
    /\ LET inv == lambda[i]
           key == objectKey(inv)
           fileId == fileIdOfKey(key)
       IN lambda' = [lambda EXCEPT ![i] =
                        IF fileId = "" THEN NextRecord(inv, "skipped: no file id")
                        ELSE [inv EXCEPT !.pc = "getMetadata",
                                         !.fileBuffer = IF key \in DOMAIN s3 THEN s3[key].Body
                                                        ELSE DocBody,
                                         !.fileId = fileId]]
    /\ query' = NoQuery
    /\ UNCHANGED <<s3, db, events, upload, deletes, faults>>

(* getFileFromS3, then the identifier is read off the key.                  *)
LambdaGetFile(i) ==
    /\ lambda[i].pc = "getFile"
    /\ LET inv == lambda[i]
           key == objectKey(inv)
           fileId == fileIdOfKey(key)
       IN lambda' = [lambda EXCEPT ![i] =
                        IF key \notin DOMAIN s3 THEN NextRecord(inv, "error: get object")
                        ELSE IF fileId = "" THEN NextRecord(inv, "skipped: no file id")
                        ELSE [inv EXCEPT !.pc = "getMetadata", !.fileBuffer = s3[key].Body,
                                         !.fileId = fileId]]
    /\ query' = NoQuery
    /\ UNCHANGED <<s3, db, events, upload, deletes, faults>>

(* dynamoService.getMetadata, then extractFileMetadata on the record's      *)
(* type: mimeType is the one attribute of metadata that is read.            *)
LambdaGetMetadata(i) ==
    /\ lambda[i].pc = "getMetadata"
    /\ LET inv == lambda[i]
           metadata == getMetadata(db, inv.fileId)
       IN lambda' = [lambda EXCEPT ![i] =
                        IF metadata = Null THEN NextRecord(inv, "skipped: no record")
                        ELSE [inv EXCEPT !.pc = "update",
                                         !.mimeType = Attr(metadata, "mimeType"),
                                         !.extractedMetadata =
                                             extractFileMetadata(inv.fileBuffer,
                                                                 Attr(metadata, "mimeType"))]]
    /\ query' = NoQuery
    /\ UNCHANGED <<s3, db, events, upload, deletes, faults>>

(* dynamoService.addExtractedMetadata *)
LambdaUpdate(i) ==
    /\ lambda[i].pc = "update"
    /\ LET inv == lambda[i]
           updates == [extractedMetadata |-> inv.extractedMetadata]
       IN IF hasUndefined(updates)
          THEN /\ lambda' = [lambda EXCEPT ![i] = NextRecord(inv, "error: update")]
               /\ db' = db
          ELSE /\ lambda' = [lambda EXCEPT ![i] = NextRecord(inv, "processed")]
               /\ db' = addExtractedMetadata(db, inv.fileId, inv.extractedMetadata)
    /\ query' = NoQuery
    /\ UNCHANGED <<s3, events, upload, deletes, faults>>

(* A store call of processS3Record throws: the error is logged, rethrown    *)
(* and caught by the loop of handler.                                       *)
LambdaStoreFailure(i) ==
    /\ lambda[i].pc \in {"getFile", "getMetadata", "update"}
    /\ MayFail
    /\ faults' = faults + 1
    /\ lambda' = [lambda EXCEPT ![i] =
                     NextRecord(lambda[i],
                                CASE lambda[i].pc = "getFile" -> "error: get object"
                                  [] lambda[i].pc = "getMetadata" -> "error: get item"
                                  [] OTHER -> "error: update")]
    /\ query' = NoQuery
    /\ UNCHANGED <<s3, db, events, upload, deletes>>

(* The invocations at work on a notification for the identifier.            *)
InFlight(fileId) ==
    {i \in Invocations :
        /\ lambda[i].pc \in {"getFile", "getMetadata", "update"}
        /\ \E n \in lambda[i].idx..Len(lambda[i].Records) :
              fileIdOfKey(decodeKey(lambda[i].Records[n])) = fileId}

(***************************************************************************)
(* DELETE /files/:fileId                                                   *)
(***************************************************************************)
(* The request arrives; dynamoService.getMetadata.                          *)
DeleteGetMetadata(d) ==
    /\ deletes[d].pc = "new"
    /\ \A e \in Deletes : e < d => deletes[e].pc # "new"
    /\ \E fileId \in IssuedIds \cup {"unissued"} :
          LET metadata == getMetadata(db, fileId)
          IN deletes' = [deletes EXCEPT ![d] =
                            IF metadata = Null
                            THEN [@ EXCEPT !.pc = "done", !.fileId = fileId,
                                           !.calls = <<"db.get">>,
                                           !.res = Response(404, "File not found")]
                            ELSE [@ EXCEPT !.pc = "s3", !.fileId = fileId,
                                           !.calls = <<"db.get">>,
                                           !.metadata = metadata]]
    /\ query' = NoQuery
    /\ UNCHANGED <<s3, db, events, upload, lambda, faults>>

(* s3Service.deleteFile(metadata.s3Key).  Deleting an absent object          *)
(* succeeds; a request without a key is refused before it is sent.          *)
DeleteObject(d) ==
    /\ deletes[d].pc = "s3"
    /\ LET key == Attr(deletes[d].metadata, "s3Key")
       IN IF key = Undefined
          THEN /\ s3' = s3
               /\ deletes' = [deletes EXCEPT
                                 ![d].pc = "done",
                                 ![d].res = Response(500, "Internal server error while deleting file")]
          ELSE /\ s3' = s3DeleteFile(s3, key)
               /\ deletes' = [deletes EXCEPT ![d].pc = "db", ![d].calls = Append(@, "s3.delete")]
    /\ query' = NoQuery
    /\ UNCHANGED <<db, events, upload, lambda, faults>>

(* dynamoService.deleteMetadata, then 200.                                  *)
DeleteItem(d) ==
    /\ deletes[d].pc = "db"
    /\ db' = deleteMetadata(db, deletes[d].fileId)
    /\ deletes' = [deletes EXCEPT ![d].pc = "done", ![d].calls = Append(@, "db.delete"),
                                  ![d].quiet = (InFlight(deletes[d].fileId) = {}),
                                  ![d].res = Response(200, "")]
    /\ query' = NoQuery
    /\ UNCHANGED <<s3, events, upload, lambda, faults>>

(* A store call of deleteFile throws: the catch block answers 500.          *)
DeleteStoreFailure(d) ==
    /\ deletes[d].pc \in {"new", "s3", "db"}
    /\ \A e \in Deletes : e < d => deletes[e].pc # "new"
    /\ MayFail
    /\ faults' = faults + 1
    /\ \E fileId \in IF deletes[d].pc = "new" THEN IssuedIds \cup {"unissued"}
                     ELSE {deletes[d].fileId} :
          deletes' = [deletes EXCEPT
                         ![d].pc = "done",
                         ![d].fileId = fileId,
                         ![d].calls = Append(@, CASE deletes[d].pc = "new" -> "db.get failed"
                                                  [] deletes[d].pc = "s3" -> "s3.delete failed"
                                                  [] OTHER -> "db.delete failed"),
                         ![d].res = Response(500, "Internal server error while deleting file")]
    /\ query' = NoQuery
    /\ UNCHANGED <<s3, db, events, upload, lambda>>

(***************************************************************************)
(* GET /metadata/:fileId and GET /download/:fileId.  A GET makes at most    *)
(* one store call, so it is one step; its answer is there until the next    *)
(* step of the system.                                                      *)
(***************************************************************************)
Answer(op, fileId, calls, status, data) ==
    [op |-> op, fileId |-> fileId, calls |-> calls, status |-> status, data |-> data]

getMetadataAnswer(fileId, table) ==
    IF ~fileIdFormat(IdText(fileId)) THEN Answer("getMetadata", fileId, <<>>, 400, Null)
    ELSE IF getMetadata(table, fileId) = Null
    THEN Answer("getMetadata", fileId, <<"db.get">>, 404, Null)
    ELSE Answer("getMetadata", fileId, <<"db.get">>, 200, getMetadata(table, fileId))

GetMetadata(ids) ==
    /\ \E fileId \in ids : query' = getMetadataAnswer(fileId, db)
    /\ UNCHANGED <<s3, db, events, upload, lambda, deletes, faults>>

(* getPresignedUrl signs locally; without a key the request cannot be       *)
(* built and the catch block answers 500.                                   *)
getDownloadUrlAnswer(fileId, table) ==
    LET metadata == getMetadata(table, fileId)
    IN IF metadata = Null THEN Answer("getDownloadUrl", fileId, <<"db.get">>, 404, Null)
       ELSE IF Attr(metadata, "s3Key") = Undefined
       THEN Answer("getDownloadUrl", fileId, <<"db.get">>, 500, Null)
       ELSE Answer("getDownloadUrl", fileId, <<"db.get", "s3.sign">>, 200,
                   [downloadUrl |-> getPresignedUrl(metadata.s3Key, DownloadTtl),
                    expiresIn |-> DownloadTtl])

GetDownloadUrl(ids) ==
    /\ \E fileId \in ids : query' = getDownloadUrlAnswer(fileId, db)
    /\ UNCHANGED <<s3, db, events, upload, lambda, deletes, faults>>

(* dynamoService.getMetadata throws in a GET: the catch block answers 500   *)
(* and nothing has changed.                                                 *)
QueryStoreFailure ==
    /\ \E fileId \in IssuedIds \cup {"unissued"}, op \in {"getMetadata", "getDownloadUrl"} :
          query' = Answer(op, fileId, <<"db.get failed">>, 500, Null)
    /\ UNCHANGED <<s3, db, events, upload, lambda, deletes, faults>>

(***************************************************************************)
(* The system.                                                             *)
(***************************************************************************)
uploadFile(reqs) ==
    \/ UploadReceive(reqs)
    \/ UploadPutObject
    \/ UploadSaveMetadata
    \/ UploadUpdateStatus
    \/ UploadStoreFailure

handler(i) ==
    \/ LambdaInvoke(i)
    \/ LambdaGetFile(i)
    \/ LambdaGetMetadata(i)
    \/ LambdaUpdate(i)
    \/ LambdaStoreFailure(i)

deleteFile(d) ==
    \/ DeleteGetMetadata(d)
    \/ DeleteObject(d)
    \/ DeleteItem(d)
    \/ DeleteStoreFailure(d)

(* The write path: uploads, notifications and deletes.  The GET requests    *)
(* only read; what they answer in a state of the write path is given by     *)
(* getMetadataAnswer and getDownloadUrlAnswer.                              *)
Next ==
    \/ uploadFile(PipelineRequests)
    \/ \E i \in Invocations : handler(i)
    \/ \E d \in Deletes : deleteFile(d)

Spec == Init /\ [][Next]_vars

(***************************************************************************)
(* Objects of other writers.  The bucket is an ordinary bucket and the      *)
(* Lambda is invoked for whatever is created in it: a short key has no      *)
(* third segment, a foreign key has one that is no identifier of a record.  *)
(***************************************************************************)
ShortKey == <<"uploads", "/", "x">>
ForeignKey == <<"other", "/", Today, "/", "unissued", "/", "f">>
ForeignKeys == {ShortKey, ForeignKey}

ForeignPut ==
    /\ \E key \in ForeignKeys \ DOMAIN s3 :
          /\ s3' = Put(s3, key, [Body |-> DocBody, ContentType |-> Doc,
                                 Metadata |-> [fileId |-> "", originalName |-> <<>>,
                                               uploadedBy |-> ""]])
          /\ events' = events \cup {s3EventKey(key)}
    /\ query' = NoQuery
    /\ UNCHANGED <<db, upload, lambda, deletes, faults>>

ForeignDelete ==
    /\ \E key \in ForeignKeys \cap DOMAIN s3 : s3' = Remove(s3, key)
    /\ query' = NoQuery
    /\ UNCHANGED <<db, events, upload, lambda, deletes, faults>>

(* The Lambda among the objects of the service and of other writers.        *)
DispatchRequests == {Request(TRUE, Plain, TextBody, PlainName, GoodField)}

NextDispatch ==
    \/ uploadFile(DispatchRequests)
    \/ ForeignPut
    \/ ForeignDelete
    \/ \E i \in Invocations : handler(i)

SpecDispatch == Init /\ [][NextDispatch]_vars

(***************************************************************************)
(* The extraction over blobs of every kind: uploads of every text up to     *)
(* MaxText characters, of a text longer than the excerpt, of a text of ten  *)
(* lines, and of each type of the allow-list with content that its          *)
(* extractor can and cannot read.                                           *)
(***************************************************************************)
TextChars == {"a", " ", "\n"}

Texts == UNION {[1..n -> TextChars] : n \in 0..MaxText}

TextOf(data, pad) ==
    [fmt |-> "text", data |-> data, pad |-> pad,
     pages |-> 0, dates |-> FALSE, width |-> 0, height |-> 0, exif |-> FALSE]

Line == <<"a", "\n">>

TenLines == TextOf(Line \o Line \o Line \o Line \o Line \o Line \o Line \o Line \o Line \o Line, 0)

LongText == TextOf(<<"a", " ", "a">>, TextLimit)

ExifBody == [fmt |-> "jpeg", data |-> <<>>, pad |-> 50,
             pages |-> 0, dates |-> FALSE, width |-> 640, height |-> 480, exif |-> TRUE]

ExtractRequests ==
    {Request(TRUE, Plain, TextOf(t, 0), PlainName, NoField) : t \in Texts}
    \cup {Request(TRUE, Plain, b, PlainName, NoField) : b \in {TenLines, LongText, PngBody}}
    \cup {Request(TRUE, Pdf, b, PlainName, NoField) : b \in {PdfBody, PdfNoDates, PngBody}}
    \cup {Request(TRUE, Png, b, PlainName, NoField) : b \in {PngBody, TextBody}}
    \cup {Request(TRUE, Jpeg, b, PlainName, NoField) : b \in {ExifBody, PdfBody}}
    \cup {Request(TRUE, m, DocBody, PlainName, NoField) : m \in {Doc, Docx}}

NextExtract ==
    \/ uploadFile(ExtractRequests)
    \/ \E i \in Invocations : handler(i)

SpecExtract == Init /\ [][NextExtract]_vars

(* One request of any shape against the stores, and the GET requests with   *)
(* identifiers of every shape.                                              *)
NextIngest ==
    \/ uploadFile(AllRequests)
    \/ GetMetadata(IssuedIds \cup OtherIds)
    \/ GetDownloadUrl(IssuedIds \cup OtherIds)
    \/ QueryStoreFailure

SpecIngest == Init /\ [][NextIngest]_vars

(***************************************************************************)
(* Properties.                                                             *)
(***************************************************************************)
getRecord(fileId) == getMetadataAnswer(fileId, db)

(* The invocations that have finished a batch holding the upload's          *)
(* notification.                                                            *)
Handled ==
    {i \in Invocations :
        /\ lambda[i].pc = "done"
        /\ \E n \in 1..Len(lambda[i].Records) :
              lambda[i].Records[n] = s3EventKey(upload.s3Key)}

NoDeleteStarted == \A d \in Deletes : deletes[d].pc = "new"

(* C1: once uploadFile has answered with a fileId and the notification of   *)
(* its blob has been delivered and handled (no store call failed, nothing   *)
(* deleted), getRecord(fileId) returns the record with status processed.    *)
C1_ProcessedOnceHandled ==
    (/\ upload.res.status = 201
     /\ Handled # {}
     /\ InFlight(upload.fileId) = {}
     /\ faults = 0
     /\ NoDeleteStarted)
    => /\ getRecord(upload.res.fileId).status = 200
       /\ getRecord(upload.res.fileId).data.status = "processed"

(* C2: after deleteFile has answered 200 for an identifier with no Lambda   *)
(* run for it in flight, getRecord answers 404 and no object is stored      *)
(* under the record's storage key.                                          *)
C2_DeletedIsGone ==
    \A d \in Deletes :
        (deletes[d].res.status = 200 /\ deletes[d].quiet)
        => /\ getRecord(deletes[d].fileId).status = 404
           /\ deletes[d].metadata.s3Key \notin DOMAIN s3

(* A delete went through after the notification had been handled.           *)
C2_Witness ==
    \E d \in Deletes :
        /\ deletes[d].res.status = 200
        /\ deletes[d].quiet
        /\ deletes[d].calls = <<"db.get", "s3.delete", "db.delete">>
        /\ Handled # {}

NothingStored == DOMAIN s3 = {} /\ DOMAIN db = {}

Received == upload.pc # "new" /\ upload.req.hasFile

(* C3: an upload whose declared MIME type is not in the allow-list is       *)
(* answered 400, and neither an object nor a record is written for it.      *)
C3_BadTypeRejected ==
    (Received /\ upload.req.mimetype \notin allowedTypes)
    => /\ upload.pc = "done"
       /\ upload.res.status = 400
       /\ upload.res.fileId = ""
       /\ upload.calls = <<>>
       /\ NothingStored

C3_Witness ==
    /\ Received
    /\ upload.req.mimetype = Exe
    /\ upload.res.status = 400

AcceptableField(field) ==
    parseUserMetadata(field).ok /\ parseUserMetadata(field).value.kind = "object"

(* C4: an upload larger than the ceiling of 50 MiB is answered 400 and      *)
(* nothing is written for it; a file of exactly the ceiling is not refused  *)
(* for its size, and is answered 201 when nothing else is wrong with it.    *)
C4_OversizeRejected ==
    /\ (Received /\ length(upload.req.body) > maxFileSize)
       => /\ upload.pc = "done"
          /\ upload.res.status = 400
          /\ upload.res.fileId = ""
          /\ upload.calls = <<>>
          /\ NothingStored
    /\ (/\ Received
        /\ length(upload.req.body) = maxFileSize
        /\ upload.req.mimetype \in allowedTypes
        /\ AcceptableField(upload.req.userMetadata))
       => /\ upload.res.status # 400
          /\ (upload.pc = "done" /\ faults = 0) => upload.res.status = 201

C4_Witness ==
    /\ Received
    /\ length(upload.req.body) = maxFileSize + 1
    /\ upload.req.mimetype \in allowedTypes
    /\ upload.res.status = 400

Served(op) == query.op = op /\ query.calls # <<"db.get failed">>

(* C5: getMetadata answers 400 to an identifier that is not in the          *)
(* canonical form, without reading the table; it answers 404 to a           *)
(* well-formed identifier that has no record; and it changes neither store. *)
Canonical(text) ==
    /\ Len(text) = 36
    /\ {n \in 1..Len(text) : text[n] = "-"} = {9, 14, 19, 24}
    /\ \A n \in (1..36) \ {9, 14, 19, 24} : text[n] \in HexDigits
    /\ text[15] \in {"1", "2", "3", "4", "5"}
    /\ text[20] \in {"8", "9", "a", "b", "A", "B"}

C5_State ==
    Served("getMetadata")
    => /\ ~Canonical(IdText(query.fileId))
          => (query.status = 400 /\ query.calls = <<>>)
       /\ (Canonical(IdText(query.fileId)) /\ query.fileId \notin DOMAIN db)
          => (query.status = 404 /\ query.calls = <<"db.get">>)

C5_MalformedIsBadRequest ==
    /\ []C5_State
    /\ [][query'.op = "getMetadata" => (s3' = s3 /\ db' = db)]_vars

C5_Witness ==
    /\ Served("getMetadata")
    /\ query.fileId = "invalid-id"
    /\ query.status = 400
    /\ DOMAIN db # {}

extractorFails(fileBuffer, mimeType) ==
    /\ mimeType # Undefined
    /\ \/ mimeType = Pdf /\ ~pdfParse(fileBuffer).ok
       \/ mimeType # Pdf /\ mimeType[1] = "image" /\ ~sharpMetadata(fileBuffer).ok

(* The update of invocation i has been applied in this step.                *)
Updated(i) ==
    /\ lambda[i].pc = "update"
    /\ lambda'[i].outcomes = Append(lambda[i].outcomes, "processed")

(* C6: when the extractor of the record's type fails on the blob, the       *)
(* result handed to the update is exactly {fileType, fileSize,              *)
(* extractionError}, no error leaves processS3Record, and the update sets   *)
(* that result and status processed on the record.                          *)
C6_State ==
    \A i \in Invocations :
        (/\ lambda[i].pc = "update"
         /\ extractorFails(lambda[i].fileBuffer, lambda[i].mimeType))
        => /\ DOMAIN lambda[i].extractedMetadata = {"fileType", "fileSize", "extractionError"}
           /\ lambda[i].extractedMetadata.fileType = lambda[i].mimeType
           /\ lambda[i].extractedMetadata.fileSize = length(lambda[i].fileBuffer)

C6_Step ==
    \A i \in Invocations :
        (/\ lambda[i].pc = "update"
         /\ extractorFails(lambda[i].fileBuffer, lambda[i].mimeType)
         /\ lambda'[i].outcomes # lambda[i].outcomes
         /\ faults' = faults)
        => /\ Updated(i)
           /\ lambda[i].fileId \in DOMAIN db'
           /\ db'[lambda[i].fileId].status = "processed"
           /\ db'[lambda[i].fileId].extractedMetadata = lambda[i].extractedMetadata

C6_DegradedStillProcessed == []C6_State /\ [][C6_Step]_vars

C6_Witness ==
    \E i \in Invocations :
        /\ lambda[i].outcomes # <<>>
        /\ lambda[i].outcomes[1] = "processed"
        /\ upload.req.mimetype = Pdf
        /\ upload.req.body = PngBody
        /\ upload.fileId \in DOMAIN db
        /\ "extractedMetadata" \in DOMAIN db[upload.fileId]
        /\ "extractionError" \in DOMAIN db[upload.fileId].extractedMetadata
        /\ db[upload.fileId].status = "processed"

(* C7: when a notification is handled again on a record that already holds *)
(* the result of an earlier handling, the update writes an equal            *)
(* extractedMetadata and status processed; a record that was processed is   *)
(* left exactly as it was.                                                  *)
C7_Step ==
    \A i \in Invocations :
        (/\ Updated(i)
         /\ lambda[i].fileId \in DOMAIN db
         /\ "extractedMetadata" \in DOMAIN db[lambda[i].fileId])
        => /\ db'[lambda[i].fileId].extractedMetadata = db[lambda[i].fileId].extractedMetadata
           /\ db'[lambda[i].fileId].status = "processed"
           /\ db[lambda[i].fileId].status = "processed" => db' = db

C7_ReplayIsIdempotent == [][C7_Step]_vars

C7_Witness ==
    \E i \in Invocations :
        /\ Len(lambda[i].outcomes) = 2
        /\ lambda[i].outcomes[1] = "processed"
        /\ lambda[i].outcomes[2] = "processed"
        /\ upload.fileId \in DOMAIN db
        /\ db[upload.fileId].status = "processed"

(* C8: an upload whose userMetadata field is present and is not well-formed *)
(* JSON is answered 400, and neither an object nor a record is written.     *)
C8_BadJsonIsBadRequest ==
    (/\ Received
     /\ upload.req.userMetadata.present
     /\ ~upload.req.userMetadata.wellFormed)
    => /\ upload.pc = "done"
       /\ upload.res.status = 400
       /\ upload.calls = <<>>
       /\ NothingStored

(* The bounds of the userMetadata fields. *)
OutOfBounds(userMetadata) ==
    \/ userMetadata.author > AuthorMax
    \/ userMetadata.description > DescriptionMax
    \/ Len(userMetadata.tags) > TagsMax
    \/ \E n \in 1..Len(userMetadata.tags) : userMetadata.tags[n] > TagMax
    \/ userMetadata.expirationDate = "past"

(* C9: an upload whose userMetadata has an author over 255 characters, a    *)
(* description over 1000, more than 10 tags, a tag over 50 characters or an *)
(* expirationDate that is not in the future is rejected, and neither an     *)
(* object nor a record is written for it.                                   *)
C9_FieldBoundsEnforced ==
    (/\ Received
     /\ AcceptableField(upload.req.userMetadata)
     /\ OutOfBounds(upload.req.userMetadata.value))
    => /\ upload.pc = "done"
       /\ upload.res.status = 400
       /\ upload.calls = <<>>
       /\ NothingStored

DeletedIds == {deletes[d].fileId : d \in {e \in Deletes : deletes[e].res.status = 200}}

getDownloadUrl(fileId) == getDownloadUrlAnswer(fileId, db)

(* C10: for every identifier a client can name, getDownloadUrl answers 404  *)
(* without a call to the object store when the table has no record of the   *)
(* identifier, and so after a successful deleteFile of it; otherwise it     *)
(* answers with a URL signed for the record's storage key and 3600 seconds, *)
(* expiresIn 3600.                                                          *)
C10_DownloadUrl ==
    \A fileId \in IssuedIds \cup OtherIds :
        /\ fileId \notin DOMAIN db
           => /\ getDownloadUrl(fileId).status = 404
              /\ getDownloadUrl(fileId).calls = <<"db.get">>
        /\ fileId \in DeletedIds => getDownloadUrl(fileId).status = 404
        /\ fileId \in DOMAIN db
           => /\ getDownloadUrl(fileId).status = 200
              /\ getDownloadUrl(fileId).data.downloadUrl
                    = getPresignedUrl(Attr(db[fileId], "s3Key"), DownloadTtl)
              /\ getDownloadUrl(fileId).data.expiresIn = DownloadTtl

(* C11: deleteFile for an identifier with no record answers 404 having      *)
(* issued no delete, and leaves both stores as they were; for an identifier *)
(* with a record the blob delete comes before the record delete, and the    *)
(* record delete is issued only after the blob delete has succeeded.        *)
C11_State ==
    \A d \in Deletes :
        /\ deletes[d].pc = "s3" => deletes[d].calls = <<"db.get">>
        /\ deletes[d].pc = "db"
           => /\ deletes[d].calls = <<"db.get", "s3.delete">>
              /\ deletes[d].metadata.s3Key \notin DOMAIN s3
        /\ deletes[d].res.status = 404 => deletes[d].calls = <<"db.get">>
        /\ (\E n \in 1..Len(deletes[d].calls) : deletes[d].calls[n] = "db.delete")
           => deletes[d].calls = <<"db.get", "s3.delete", "db.delete">>

C11_Step ==
    \A d \in Deletes :
        /\ (/\ deletes[d].pc = "new"
            /\ deletes'[d].pc # "new"
            /\ faults' = faults
            /\ deletes'[d].fileId \notin DOMAIN db)
           => /\ deletes'[d].res.status = 404
              /\ s3' = s3
              /\ db' = db

(* A record leaves the table only in the record delete of a deleteFile that *)
(* has deleted the blob; a blob leaves the bucket only in its blob delete.  *)
C11_Removals ==
    /\ \A fileId \in DOMAIN db \ DOMAIN db' :
          \E d \in Deletes :
             /\ deletes[d].pc = "db"
             /\ deletes[d].fileId = fileId
             /\ deletes[d].calls = <<"db.get", "s3.delete">>
    /\ \A key \in DOMAIN s3 \ DOMAIN s3' :
          \E d \in Deletes :
             /\ deletes[d].pc = "s3"
             /\ deletes[d].metadata.s3Key = key
             /\ db' = db

C11_DeleteOrder == []C11_State /\ [][C11_Step /\ C11_Removals]_vars

C11_Witness ==
    \E d \in Deletes :
        /\ deletes[d].res.status = 404
        /\ deletes[d].calls = <<"db.get">>
        /\ DOMAIN db # {}
        /\ DOMAIN s3 # {}

(* C12: for every upload that ingest accepts, the storage key is            *)
(* uploads/{date}/{fileId}/{sanitized original filename}, and the third     *)
(* '/'-separated segment of the key as the Lambda decodes it from the       *)
(* notification is that fileId.                                             *)
C12_KeyForm ==
    upload.fileId # ""
    => /\ upload.s3Key = <<"uploads", "/", Today, "/", upload.fileId, "/">>
                            \o sanitizeFilename(upload.req.originalname)
       /\ fileIdOfKey(decodeKey(s3EventKey(upload.s3Key))) = upload.fileId

(* C13: when the Lambda's final update (extractedMetadata and status        *)
(* processed) for an identifier is applied and the table holds no record    *)
(* of the identifier, the update reports no error and the table holds no    *)
(* record of the identifier afterwards.                                     *)
C13_Step ==
    \A i \in Invocations :
        (/\ lambda[i].pc = "update"
         /\ lambda'[i].outcomes # lambda[i].outcomes
         /\ faults' = faults
         /\ lambda[i].fileId \notin DOMAIN db)
        => /\ lambda'[i].outcomes[Len(lambda'[i].outcomes)] \notin {"error: update"}
           /\ lambda[i].fileId \notin DOMAIN db'

C13_UpdateAfterDelete == [][C13_Step]_vars

(* C14: the status of a record only moves forward along uploaded,           *)
(* processing, processed: no step takes an existing record from processed   *)
(* back to processing or uploaded, nor from processing back to uploaded,    *)
(* and no record has status uploading or error.                             *)
StatusRank(status) ==
    CASE status = "uploaded" -> 1
      [] status = "processing" -> 2
      [] status = "processed" -> 3
      [] OTHER -> 0

C14_State == \A fileId \in DOMAIN db : db[fileId].status \notin {"uploading", "error"}

C14_Step ==
    \A fileId \in DOMAIN db \cap DOMAIN db' :
        StatusRank(db'[fileId].status) >= StatusRank(db[fileId].status)

C14_StatusForward == []C14_State /\ [][C14_Step]_vars

(* C15: within one uploadFile the blob write has completed before the       *)
(* record write is issued, the record write has completed before the status *)
(* update to processing is issued, and the fileId is in the response only   *)
(* after all three calls have succeeded.                                    *)
C15_State ==
    /\ upload.pc = "put"
       => (upload.calls = <<>> /\ upload.s3Key \notin DOMAIN s3 /\ upload.fileId \notin DOMAIN db)
    /\ upload.pc = "save"
       => (upload.calls = <<"s3.put">> /\ upload.s3Key \in DOMAIN s3
           /\ upload.fileId \notin DOMAIN db)
    /\ upload.pc = "status"
       => (upload.calls = <<"s3.put", "db.put">> /\ upload.s3Key \in DOMAIN s3
           /\ upload.fileId \in DOMAIN db)
    /\ upload.res.fileId # ""
       => (upload.res.status = 201 /\ upload.calls = <<"s3.put", "db.put", "db.update">>)
    /\ upload.res.status = 201 => upload.res.fileId = upload.fileId

C15_Step ==
    /\ (upload.res.status # 201 /\ upload'.res.status = 201)
       => (upload.pc = "status" /\ db'[upload.fileId].status = "processing")
    /\ (upload.pc = "save" /\ upload'.pc = "status")
       => (db'[upload.fileId].status = "uploaded" /\ s3' = s3)
    /\ (upload'.calls # upload.calls /\ upload.pc \notin {"save", "status"}) => db' = db

C15_IngestOrder == []C15_State /\ [][C15_Step]_vars

C15_Witness ==
    /\ upload.res.status = 201
    /\ upload.res.fileId = "id1"
    /\ upload.calls = <<"s3.put", "db.put", "db.update">>
    /\ upload.s3Key \in DOMAIN s3
    /\ upload.fileId \in DOMAIN db

(* C16: in every state, the states between the steps of deleteFile and      *)
(* after a failed step of it included, every record in the table has a      *)
(* storage key under which the bucket holds an object.                      *)
C16_RecordHasBlob ==
    \A fileId \in DOMAIN db :
        /\ "s3Key" \in DOMAIN db[fileId]
        /\ db[fileId].s3Key \in DOMAIN s3

(* The record of invocation i that is being processed has a key with too    *)
(* few segments to hold an identifier.                                      *)
ShortRecord(i) ==
    /\ lambda[i].pc = "getFile"
    /\ Len(split(objectKey(lambda[i]))) < 3

LastOutcome(inv) == inv.outcomes[Len(inv.outcomes)]

(* C17: for a notification whose key has too few segments to hold an        *)
(* identifier, processS3Record returns without error and without a call to  *)
(* the table, whether or not the object under the key can be read.          *)
C17_Step ==
    \A i \in Invocations :
        (ShortRecord(i) /\ lambda'[i].outcomes # lambda[i].outcomes)
        => /\ LastOutcome(lambda'[i]) = "skipped: no file id"
           /\ db' = db

C17_ShortKeySkipped == [][C17_Step]_vars

(* The record lookup of invocation i finds no record for the identifier     *)
(* parsed from the key.                                                     *)
NoRecordFound(i) ==
    /\ lambda[i].pc = "getMetadata"
    /\ lambda[i].fileId \notin DOMAIN db

(* C18: when the Lambda finds no record for the identifier parsed from the  *)
(* key, processS3Record returns without error, without extracting and       *)
(* without a write to the table, and the notification is not processed      *)
(* again: the handler moves on to the next record of the batch.             *)
C18_Step ==
    \A i \in Invocations :
        (NoRecordFound(i) /\ lambda'[i].pc # "getMetadata" /\ faults' = faults)
        => /\ lambda'[i].outcomes = Append(lambda[i].outcomes, "skipped: no record")
           /\ lambda'[i].extractedMetadata = Null
           /\ lambda'[i].pc \in {"getFile", "done"}
           /\ lambda'[i].idx = IF lambda[i].idx = Len(lambda[i].Records)
                               THEN lambda[i].idx ELSE lambda[i].idx + 1
           /\ db' = db
           /\ s3' = s3
           /\ events' = events

C18_NoRecordSkipped == [][C18_Step]_vars

C18_Witness ==
    \E i \in Invocations, d \in Deletes :
        /\ deletes[d].res.status = 200
        /\ lambda[i].outcomes # <<>>
        /\ LastOutcome(lambda[i]) = "skipped: no record"
        /\ db = <<>>

Working(i) == lambda[i].pc \in {"getFile", "getMetadata", "update"}

Failures == {"error: get object", "error: get item", "error: update"}

(* C19: the handler processes the records of one invocation one after the   *)
(* other, each on its own: when processing of a record fails, the handler   *)
(* goes on with the next record, every record of the batch is processed,    *)
(* and the handler completes without throwing.                              *)
C19_State ==
    \A i \in Invocations :
        /\ Working(i) => (lambda[i].idx \in 1..Len(lambda[i].Records)
                          /\ Len(lambda[i].outcomes) = lambda[i].idx - 1)
        /\ lambda[i].pc = "done" => Len(lambda[i].outcomes) = Len(lambda[i].Records)

C19_Step ==
    \A i \in Invocations :
        (Working(i) /\ lambda'[i].outcomes # lambda[i].outcomes)
        => /\ Len(lambda'[i].outcomes) = Len(lambda[i].outcomes) + 1
           /\ SubSeq(lambda'[i].outcomes, 1, Len(lambda[i].outcomes)) = lambda[i].outcomes
           /\ lambda'[i].Records = lambda[i].Records
           /\ IF lambda[i].idx < Len(lambda[i].Records)
              THEN lambda'[i].pc = "getFile" /\ lambda'[i].idx = lambda[i].idx + 1
              ELSE lambda'[i].pc = "done"

C19_BatchIndependent == []C19_State /\ [][C19_Step]_vars

C19_Witness ==
    \E i \in Invocations :
        /\ lambda[i].pc = "done"
        /\ Len(lambda[i].Records) = 2
        /\ lambda[i].outcomes[1] \in Failures
        /\ lambda[i].outcomes[2] = "processed"

HasExtracted(table, fileId) ==
    fileId \in DOMAIN table /\ "extractedMetadata" \in DOMAIN table[fileId]

(* The invocations that have completed their update for the identifier.     *)
UpdatedFor(fileId) ==
    {i \in Invocations :
        \E n \in 1..Len(lambda[i].outcomes) :
            /\ lambda[i].outcomes[n] = "processed"
            /\ fileIdOfKey(decodeKey(lambda[i].Records[n])) = fileId}

(* C20: the record uploadFile writes has no extractedMetadata and neither   *)
(* of its writes to the table sets or changes extractedMetadata; a record   *)
(* has extractedMetadata only if an invocation of the Lambda has completed  *)
(* its update for the identifier, and that one update sets                  *)
(* extractedMetadata and status processed together.                         *)
C20_State == \A fileId \in DOMAIN db : HasExtracted(db, fileId) => UpdatedFor(fileId) # {}

C20_Ingest ==
    upload'.calls # upload.calls
    => \A fileId \in DOMAIN db \cup DOMAIN db' :
          /\ HasExtracted(db', fileId) <=> HasExtracted(db, fileId)
          /\ HasExtracted(db, fileId)
             => db'[fileId].extractedMetadata = db[fileId].extractedMetadata

C20_Dispatch ==
    \A fileId \in DOMAIN db' :
        (HasExtracted(db', fileId) /\ db' # db /\ upload'.calls = upload.calls)
        => \E i \in Invocations :
              /\ lambda[i].pc = "update"
              /\ lambda[i].fileId = fileId
              /\ lambda'[i].outcomes = Append(lambda[i].outcomes, "processed")
              /\ db'[fileId].extractedMetadata = lambda[i].extractedMetadata
              /\ db'[fileId].status = "processed"

C20_ExtractedOnlyByLambda == []C20_State /\ [][C20_Ingest /\ C20_Dispatch]_vars

C20_Witness ==
    /\ upload.res.status = 201
    /\ HasExtracted(db, upload.fileId)
    /\ db[upload.fileId].status = "processed"
    /\ "mimeType" \in DOMAIN db[upload.fileId]
    /\ UpdatedFor(upload.fileId) # {}

(* The fields a result of extractFileMetadata has besides fileType and      *)
(* fileSize, by the branch that produced it.                                *)
Basic == {"fileType", "fileSize"}

BranchOf(extractedMetadata) ==
    LET fields == DOMAIN extractedMetadata \ Basic
    IN CASE "extractionError" \in fields -> "degraded"
         [] "pages" \in fields -> "pdf"
         [] "dimensions" \in fields -> "image"
         [] "textAnalysis" \in fields -> "text"
         [] fields = {} -> "other"
         [] OTHER -> "mixed"

ExpectedBranch(mimeType) ==
    CASE mimeType = Pdf -> "pdf"
      [] mimeType # Pdf /\ mimeType[1] = "image" -> "image"
      [] mimeType = Plain -> "text"
      [] OTHER -> "other"

(* C21: extraction takes the one branch of the record's mimeType (PDF,      *)
(* image, text, or the pass-through with fileType and fileSize alone); in   *)
(* every branch, degraded or not, fileType is the record's mimeType,        *)
(* fileSize is the byte length of the blob, and the update leaves the       *)
(* record with status processed.                                            *)
C21_State ==
    \A i \in Invocations :
        (lambda[i].pc = "update" /\ lambda[i].fileId \in DOMAIN db)
        => /\ BranchOf(lambda[i].extractedMetadata)
                 \in {ExpectedBranch(db[lambda[i].fileId].mimeType), "degraded"}
           /\ lambda[i].extractedMetadata.fileType = db[lambda[i].fileId].mimeType
           /\ lambda[i].extractedMetadata.fileSize
                 = length(s3[db[lambda[i].fileId].s3Key].Body)

C21_Step ==
    \A i \in Invocations :
        (/\ lambda[i].pc = "update"
         /\ lambda'[i].outcomes # lambda[i].outcomes
         /\ faults' = faults)
        => /\ LastOutcome(lambda'[i]) = "processed"
           /\ db'[lambda[i].fileId].status = "processed"
           /\ db'[lambda[i].fileId].extractedMetadata = lambda[i].extractedMetadata

C21_BranchPerType == []C21_State /\ [][C21_Step]_vars

(* The text of a blob: its characters, the last pad of them a filler that   *)
(* is neither a newline nor whitespace.                                     *)
NewlineCount(text) == Cardinality({n \in 1..Len(text.data) : text.data[n] = "\n"})

SegmentCount(text) == NewlineCount(text) + 1

EndsLine(text) == text.pad = 0 /\ (text.data = <<>> \/ text.data[Len(text.data)] = "\n")

(* The lines of a file: those ended by a newline and a last one that is not. *)
LineCount(text) == NewlineCount(text) + (IF EndsLine(text) THEN 0 ELSE 1)

(* The maximal runs of characters that are not whitespace. *)
TokenCount(text) ==
    Cardinality({n \in 1..Len(text.data) :
                    /\ ~isSpace(text.data[n])
                    /\ (n = 1 \/ isSpace(text.data[n - 1]))})
    + (IF text.pad > 0 /\ (text.data = <<>> \/ isSpace(text.data[Len(text.data)]))
       THEN 1 ELSE 0)

Excerpt(text) ==
    LET n == Min(TextLimit, Len(text.data) + text.pad)
    IN [data |-> SubSeq(text.data, 1, Min(n, Len(text.data))),
        pad |-> n - Min(n, Len(text.data))]

(* C22: for a text/plain blob the extracted textAnalysis has lines = the    *)
(* number of newline-delimited segments, words = the number of              *)
(* whitespace-delimited tokens and characters = the length of the text,     *)
(* all over the full text; textContent is its first min(5000, length)       *)
(* characters; a file of ten lines reports lines = 10.                      *)
C22_TextAnalysis ==
    \A i \in Invocations :
        (/\ lambda[i].pc = "update"
         /\ lambda[i].mimeType = Plain
         /\ lambda[i].fileBuffer.fmt = "text")
        => LET text == [data |-> lambda[i].fileBuffer.data, pad |-> lambda[i].fileBuffer.pad]
               result == lambda[i].extractedMetadata
           IN /\ result.textAnalysis.lines = SegmentCount(text)
              /\ result.textAnalysis.words = TokenCount(text)
              /\ result.textAnalysis.characters = Len(text.data) + text.pad
              /\ result.textContent = Excerpt(text)
              /\ LineCount(text) = 10 => result.textAnalysis.lines = 10

Immutable ==
    {"id", "originalName", "fileName", "mimeType", "size", "s3Key", "s3Bucket",
     "uploadedAt", "userMetadata"}

(* The record of the upload as saveMetadata wrote it.                       *)
Written == newMetadata(upload)

(* C23: a record that exists has the id, originalName, mimeType, size,      *)
(* storage key, bucket, uploadedAt and userMetadata that uploadFile wrote,  *)
(* whatever operations have run since: the status update of uploadFile      *)
(* changes status only, the update of the Lambda extractedMetadata and      *)
(* status only.                                                             *)
C23_State ==
    \A fileId \in DOMAIN db :
        /\ fileId = upload.fileId
        /\ \A f \in Immutable : f \in DOMAIN db[fileId] /\ db[fileId][f] = Written[f]

C23_Step ==
    \A fileId \in DOMAIN db \cap DOMAIN db' :
        /\ \A f \in DOMAIN db[fileId] \ {"status", "extractedMetadata"} :
              f \in DOMAIN db'[fileId] /\ db'[fileId][f] = db[fileId][f]
        /\ upload'.calls # upload.calls
           => \A f \in DOMAIN db[fileId] \ {"status"} :
                 f \in DOMAIN db'[fileId] /\ db'[fileId][f] = db[fileId][f]

C23_ImmutableFields == []C23_State /\ [][C23_Step]_vars

(* Invocation i is at the blob read of a record whose key holds an          *)
(* identifier, and this step ends the record: the read has failed.          *)
ReadFails(i) ==
    /\ lambda[i].pc = "getFile"
    /\ fileIdOfKey(objectKey(lambda[i])) # ""
    /\ lambda'[i].outcomes # lambda[i].outcomes

Unreadable(i) ==
    /\ lambda[i].pc = "getFile"
    /\ fileIdOfKey(objectKey(lambda[i])) # ""
    /\ objectKey(lambda[i]) \notin DOMAIN s3

FailsBeforeTable(i) ==
    /\ lambda'[i].outcomes = Append(lambda[i].outcomes, "error: get object")
    /\ lambda'[i].pc \in {"getFile", "done"}
    /\ db' = db

(* C24 as stated: when the Lambda cannot read the blob of a key that holds  *)
(* an identifier, processing fails before any access to the table, and the  *)
(* record, if there is one, is unchanged and has status processing.         *)
C24_Original ==
    \A i \in Invocations :
        ReadFails(i)
        => /\ FailsBeforeTable(i)
           /\ \A fileId \in DOMAIN db' :
                 fileId = fileIdOfKey(objectKey(lambda[i]))
                 => db'[fileId].status = "processing"

C24_Step ==
    \A i \in Invocations :
        /\ ReadFails(i) => FailsBeforeTable(i)
        /\ (Unreadable(i) /\ lambda'[i].pc # lambda[i].pc) => ReadFails(i)
        /\ (Unreadable(i) /\ lambda'[i].idx # lambda[i].idx) => ReadFails(i)

FailedCalls == {"s3.put failed", "db.put failed", "db.update failed"}

UploadFailed == \E n \in 1..Len(upload.calls) : upload.calls[n] \in FailedCalls

(* C25: when a store call of uploadFile fails, the answer is the generic    *)
(* 500 and no call is made after the failed one; after a failed blob write  *)
(* no record is written, and no fileId is returned when the blob write, the *)
(* record write or the status update has failed.                            *)
C25_State ==
    UploadFailed
    => /\ upload.pc = "done"
       /\ upload.res = Response(500, "Internal server error during upload")
       /\ upload.res.fileId = ""
       /\ \A n \in 1..Len(upload.calls) : upload.calls[n] \in FailedCalls => n = Len(upload.calls)
       /\ upload.calls \in {<<"s3.put failed">>, <<"s3.put", "db.put failed">>,
                            <<"s3.put", "db.put", "db.update failed">>}
       /\ upload.calls = <<"s3.put failed">>
          => (upload.fileId \notin DOMAIN db /\ upload.s3Key \notin DOMAIN s3)
       /\ upload.calls = <<"s3.put", "db.put failed">> => upload.fileId \notin DOMAIN db

C25_Step ==
    (upload.pc \in {"put", "save", "status"} /\ faults' # faults /\ upload'.calls # upload.calls)
    => /\ upload'.pc = "done"
       /\ upload'.res.status = 500
       /\ s3' = s3
       /\ db' = db

C25_IngestFailure == []C25_State /\ [][C25_Step]_vars

C25_Witness ==
    /\ upload.calls = <<"s3.put", "db.put failed">>
    /\ upload.res.status = 500
    /\ upload.s3Key \in DOMAIN s3
    /\ upload.fileId \notin DOMAIN db

====
